---- MODULE Spec2Model ----
(***************************************************************************)
(* Model of the StyleTTS2_Arabic data-preparation scripts:                 *)
(*   generate_TTS2_lists.py  (write_list_file, select_balanced_by_gender,  *)
(*                            main)                                        *)
(*   hfData2WavFiles.py      (main: the exporter's split and record loops) *)
(*                                                                         *)
(* A table (pandas DataFrame) is a sequence of rows; a row is a record     *)
(*   [idx, file_path, split, gender, duration, text]                       *)
(* where idx is the row's index label in the table read from the CSV.      *)
(* Durations are natural numbers of seconds (every row has one);           *)
(* target_duration / 2.0 is compared without division (2 * x against       *)
(* target_duration). A gender or file_path cell may be missing (NaN).      *)
(***************************************************************************)
EXTENDS Integers, Sequences, FiniteSets, TLC

VARIABLES
    \* ---- generate_TTS2_lists.py: main ----
    pc,               \* position of main
    csv_exists,       \* os.path.exists(args.metadata_csv)
    columns,          \* df.columns of the metadata CSV
    df,               \* the table read from the CSV
    text_field,       \* args.text_field
    train_split,      \* args.train_split
    val_split,        \* args.val_split
    target_duration,  \* args.target_duration: Unset (None) or Given(n)
    duration_order,   \* args.duration_order
    df_train,
    df_val,
    exit_status,      \* Unset while running, then Given(exit status)
    \* ---- select_balanced_by_gender ----
    spc,              \* position of select_balanced_by_gender
    s_df,             \* parameter df
    s_target,         \* parameter target_duration
    s_order,          \* parameter order
    gender_i,         \* position of the loop over ['male', 'female']
    df_gender,
    cum_duration,
    selected_indices,
    selected_rows,
    s_ret,            \* the returned table
    \* ---- write_list_file ----
    wpc,              \* position of write_list_file
    w_data,           \* parameter data
    w_out,            \* parameter output_file
    w_k,              \* rows of data already iterated
    files,            \* output_file -> [opened, lines]: whether this run has
                      \* opened the file for writing, and the lines written
    reported,         \* output_file -> Unset or Given(N) of "Wrote N entries"
    \* ---- hfData2WavFiles.py: main ----
    epc,              \* position of the exporter's main
    splits,           \* the requested split names, in order
    hub,              \* split name -> [loads, examples]: whether load_dataset
                      \* loads the split, and the split's examples
    split_i,          \* position of the loop over splits
    dataset,          \* the loaded dataset of the current split
    ex_i,             \* enumerate index of the record loop
    wav_files,        \* the WAV files written by sf.write, in order
    all_metadata,
    meta_csv          \* Unset, or Given(the rows written to the metadata CSV)

genVars == <<pc, csv_exists, columns, df, text_field, train_split, val_split,
             target_duration, duration_order, df_train, df_val, exit_status>>
selVars == <<spc, s_df, s_target, s_order, gender_i, df_gender, cum_duration,
             selected_indices, selected_rows, s_ret>>
wrVars == <<wpc, w_data, w_out, w_k, files, reported>>
expVars == <<epc, splits, hub, split_i, dataset, ex_i, wav_files, all_metadata,
             meta_csv>>
vars == <<genVars, selVars, wrVars, expVars>>

----------------------------------------------------------------------------
(* Bounds of the model *)

MaxRows == 3
MaxDur == 2
MaxTarget == 3

----------------------------------------------------------------------------
(* Values *)

None == "None"

\* a number that may be None: <<>> for None, <<n>> for the number n
Unset == <<>>
Given(n) == <<n>>
ValueOf(v) == v[1]
NaN == "NaN"

\* gender cells: strings in several cases, another label, and a missing cell
Genders == {"male", "Female", "other", NaN}

Orders == {"random", "min", "max"}

\* str.lower() on a gender cell; a missing cell stays missing
Lower(g) ==
    CASE g = "MALE" -> "male"
      [] g = "Male" -> "male"
      [] g = "Female" -> "female"
      [] g = "FEMALE" -> "female"
      [] OTHER -> g

GenderLoop == <<"male", "female">>

----------------------------------------------------------------------------
(* Sequence helpers *)

RECURSIVE SumDuration(_)
SumDuration(d) ==
    IF d = <<>> THEN 0 ELSE d[1].duration + SumDuration(Tail(d))

\* pd.concat(selected_rows, ignore_index=True): the frames one after the
\* other; a row's place in the result is its new index, its idx field stays
\* the label it had in the input
RECURSIVE Concat(_)
Concat(frames) ==
    IF frames = <<>> THEN <<>> ELSE frames[1] \o Concat(Tail(frames))

IndexOrders(n) ==
    {p \in [1..n -> 1..n] : \A i, j \in 1..n : i # j => p[i] # p[j]}

Reorderings(d) ==
    {[i \in 1..Len(d) |-> d[p[i]]] : p \in IndexOrders(Len(d))}

Ascending(d) ==
    \A i \in 1..(Len(d) - 1) : d[i].duration <= d[i + 1].duration

Descending(d) ==
    \A i \in 1..(Len(d) - 1) : d[i].duration >= d[i + 1].duration

----------------------------------------------------------------------------
(* select_balanced_by_gender *)

\* faulty variant of MatchesGender: the comparison without str.lower()
MatchesGenderExact(row, gender) == row.gender = gender

\* faulty variant of MatchesGender: whatever is not male counts as female
MatchesNotMale(row, gender) ==
    IF gender = "male" THEN Lower(row.gender) = "male"
    ELSE Lower(row.gender) # "male"

\* line 74: df['gender'].str.lower() == gender
MatchesGender(row, gender) == Lower(row.gender) = gender

\* df[df['gender'].str.lower() == gender]
GenderSubset(d, gender) ==
    SelectSeq(d, LAMBDA row : MatchesGender(row, gender))

\* lines 70, 80: total_duration < required_per_gender, where
\* required_per_gender = target_duration / 2.0
BelowRequired(total, target) == 2 * total < target

\* faulty variant of ReachesRequired: a strict comparison
ReachesStrictly(cum, target) == 2 * cum > target

\* faulty variant of ReachesRequired: the whole target_duration per gender
ReachesFullTarget(cum, target) == cum >= target

\* lines 70, 103: cum_duration >= required_per_gender
ReachesRequired(cum, target) == 2 * cum >= target

\* faulty variant of Reordered: the rows are shuffled whatever the order
AnyReorder(d, order) == Reorderings(d)

\* lines 85-92: the orders df_gender may be put in. sample(frac=1,
\* random_state=42) is a fixed shuffle whose permutation is not modelled:
\* any order; sort_values leaves the order of equal durations open
Reordered(d, order) ==
    CASE order = "min" -> {r \in Reorderings(d) : Ascending(r)}
      [] order = "max" -> {r \in Reorderings(d) : Descending(r)}
      [] OTHER -> Reorderings(d)

\* df_gender.loc[selected_indices]
RECURSIVE Loc(_, _)
Loc(d, labels) ==
    IF labels = <<>> THEN <<>>
    ELSE SelectSeq(d, LAMBDA row : row.idx = labels[1]) \o Loc(d, Tail(labels))

SelInGenderLoop == spc = "gender" /\ gender_i <= Len(GenderLoop)

\* lines 73-77: no rows of this gender, warn and continue
SelNoData ==
    /\ SelInGenderLoop
    /\ GenderSubset(s_df, GenderLoop[gender_i]) = <<>>
    /\ gender_i' = gender_i + 1
    /\ UNCHANGED <<spc, s_df, s_target, s_order, df_gender, cum_duration,
                   selected_indices, selected_rows, s_ret>>
    /\ UNCHANGED <<genVars, wrVars, expVars>>

\* lines 79-83: the gender's total is below the requirement, take all its rows
SelFullData ==
    /\ SelInGenderLoop
    /\ LET sub == GenderSubset(s_df, GenderLoop[gender_i])
       IN  /\ sub # <<>>
           /\ BelowRequired(SumDuration(sub), s_target)
           /\ df_gender' = sub
           /\ selected_rows' = Append(selected_rows, sub)
    /\ gender_i' = gender_i + 1
    /\ UNCHANGED <<spc, s_df, s_target, s_order, cum_duration,
                   selected_indices, s_ret>>
    /\ UNCHANGED <<genVars, wrVars, expVars>>

\* lines 85-95: reorder the gender's rows and start accumulating
SelReorder ==
    /\ SelInGenderLoop
    /\ LET sub == GenderSubset(s_df, GenderLoop[gender_i])
       IN  /\ sub # <<>>
           /\ ~BelowRequired(SumDuration(sub), s_target)
           /\ df_gender' \in Reordered(sub, s_order)
    /\ cum_duration' = 0
    /\ selected_indices' = <<>>
    /\ spc' = "loop"
    /\ UNCHANGED <<s_df, s_target, s_order, gender_i, selected_rows, s_ret>>
    /\ UNCHANGED <<genVars, wrVars, expVars>>

\* lines 96-104: one iteration of the accumulation loop; float(...) of a
\* number is that number; the loop ends on the break or after the last row
SelAccumulate ==
    /\ spc = "loop"
    /\ Len(selected_indices) < Len(df_gender)
    /\ LET row == df_gender[Len(selected_indices) + 1]
           dur == row.duration
       IN  /\ selected_indices' = Append(selected_indices, row.idx)
           /\ cum_duration' = cum_duration + dur
           /\ spc' = IF ReachesRequired(cum_duration + dur, s_target)
                        \/ Len(selected_indices) + 1 = Len(df_gender)
                     THEN "selected" ELSE "loop"
    /\ UNCHANGED <<s_df, s_target, s_order, gender_i, df_gender,
                   selected_rows, s_ret>>
    /\ UNCHANGED <<genVars, wrVars, expVars>>

\* lines 105-106: keep the accumulated rows, next gender
SelAppend ==
    /\ spc = "selected"
    /\ selected_rows' = Append(selected_rows, Loc(df_gender, selected_indices))
    /\ gender_i' = gender_i + 1
    /\ spc' = "gender"
    /\ UNCHANGED <<s_df, s_target, s_order, df_gender, cum_duration,
                   selected_indices, s_ret>>
    /\ UNCHANGED <<genVars, wrVars, expVars>>

\* lines 108-111: concat of the per-gender frames, or df when there is none
SelReturn ==
    /\ spc = "gender"
    /\ gender_i > Len(GenderLoop)
    /\ s_ret' = IF selected_rows # <<>> THEN Concat(selected_rows) ELSE s_df
    /\ spc' = "returned"
    /\ UNCHANGED <<s_df, s_target, s_order, gender_i, df_gender, cum_duration,
                   selected_indices, selected_rows>>
    /\ UNCHANGED <<genVars, wrVars, expVars>>

----------------------------------------------------------------------------
(* write_list_file *)

\* file_path cells: a path, the empty string, Python None, and NaN (the
\* value pandas gives a missing cell)
FilePaths == {"wav_data/a.wav", "", None, NaN}

\* text cells
Texts == {"t", " t "}

\* `not file_path`: the empty string and None are falsy, NaN is truthy
Falsy(v) == v \in {"", None}

\* os.fspath accepts a str; os.path.abspath and os.path.basename raise
\* TypeError on anything else
IsStr(v) == v \notin {None, NaN}

\* str(...).strip()
Strip(t) == IF t = " t " THEN "t" ELSE t

OutputFiles == {"train_list", "val_list"}

\* an output file this run has not opened
NotOpened == [opened |-> FALSE, lines |-> <<>>]

\* lines 38-42: open(output_file, "w") creates or truncates the file
WOpen ==
    /\ wpc = "open"
    /\ files' = [files EXCEPT ![w_out] = [opened |-> TRUE, lines |-> <<>>]]
    /\ w_k' = 0
    /\ wpc' = "loop"
    /\ UNCHANGED <<w_data, w_out, reported>>
    /\ UNCHANGED <<genVars, selVars, expVars>>

WInLoop == wpc = "loop" /\ w_k < Len(w_data)

\* lines 44-46: a falsy file_path, continue
WSkip ==
    /\ WInLoop
    /\ Falsy(w_data[w_k + 1].file_path)
    /\ w_k' = w_k + 1
    /\ UNCHANGED <<wpc, w_data, w_out, files, reported>>
    /\ UNCHANGED <<genVars, selVars, expVars>>

\* lines 48-56: the relative path, or the base name when relpath raises,
\* then the line rel_path|transcript
WLine ==
    /\ WInLoop
    /\ LET row == w_data[w_k + 1]
       IN  /\ ~Falsy(row.file_path)
           /\ IsStr(row.file_path)
           /\ \E how \in {"relpath", "basename"} :
                 files' = [files EXCEPT ![w_out].lines =
                              Append(@, [rel_path |-> <<how, row.file_path>>,
                                         transcript |-> Strip(row.text)])]
    /\ w_k' = w_k + 1
    /\ UNCHANGED <<wpc, w_data, w_out, reported>>
    /\ UNCHANGED <<genVars, selVars, expVars>>

\* lines 48-53: abspath raises TypeError on a file_path that is no str, and so
\* does basename in the handler; the exception leaves write_list_file
WRaise ==
    /\ WInLoop
    /\ LET row == w_data[w_k + 1]
       IN  /\ ~Falsy(row.file_path)
           /\ ~IsStr(row.file_path)
    /\ wpc' = "raised"
    /\ UNCHANGED <<w_data, w_out, w_k, files, reported>>
    /\ UNCHANGED <<genVars, selVars, expVars>>

\* line 57: print(f"Wrote {len(data)} entries to {output_file}.")
WReport ==
    /\ wpc = "loop"
    /\ w_k = Len(w_data)
    /\ reported' = [reported EXCEPT ![w_out] = Given(Len(w_data))]
    /\ wpc' = "done"
    /\ UNCHANGED <<w_data, w_out, w_k, files>>
    /\ UNCHANGED <<genVars, selVars, expVars>>

----------------------------------------------------------------------------
(* generate_TTS2_lists.py: main *)

\* the value of a cell whose column the CSV does not have
Absent == "Absent"

\* faulty variant of RequiredColumns: the text field is not checked
RequiredWithoutText == {"file_path", "split"}

\* line 146: for col in ["file_path", "split", args.text_field]
RequiredColumns == {"file_path", "split", text_field}

\* lines 152-153: df[df["split"] == label]
SplitSubset(d, label) == SelectSeq(d, LAMBDA row : row.split = label)

\* lines 159-160: target_duration given, gender and duration columns present
SelectionApplies ==
    /\ target_duration # Unset
    /\ {"gender", "duration"} \subseteq columns

\* faulty variant of SelectorInput: the table before the split
WholeTable == df

\* line 162: the table handed to select_balanced_by_gender
SelectorInput == df_train

\* lines 139-141: the metadata CSV does not exist
MainNoCsv ==
    /\ pc = "start"
    /\ ~csv_exists
    /\ exit_status' = Given(1)
    /\ pc' = "exited"
    /\ UNCHANGED <<csv_exists, columns, df, text_field, train_split, val_split,
                   target_duration, duration_order, df_train, df_val>>
    /\ UNCHANGED <<selVars, wrVars, expVars>>

\* lines 143-149: read the CSV; a required column is not in it
MainMissingColumn ==
    /\ pc = "start"
    /\ csv_exists
    /\ ~(RequiredColumns \subseteq columns)
    /\ exit_status' = Given(1)
    /\ pc' = "exited"
    /\ UNCHANGED <<csv_exists, columns, df, text_field, train_split, val_split,
                   target_duration, duration_order, df_train, df_val>>
    /\ UNCHANGED <<selVars, wrVars, expVars>>

\* lines 143-156: read the CSV, all required columns are there, split it
MainSplit ==
    /\ pc = "start"
    /\ csv_exists
    /\ RequiredColumns \subseteq columns
    /\ df_train' = SplitSubset(df, train_split)
    /\ df_val' = SplitSubset(df, val_split)
    /\ pc' = "filter"
    /\ UNCHANGED <<csv_exists, columns, df, text_field, train_split, val_split,
                   target_duration, duration_order, exit_status>>
    /\ UNCHANGED <<selVars, wrVars, expVars>>

\* lines 159-162: call select_balanced_by_gender
MainSelect ==
    /\ pc = "filter"
    /\ SelectionApplies
    /\ s_df' = SelectorInput
    /\ s_target' = ValueOf(target_duration)
    /\ s_order' = duration_order
    /\ spc' = "gender"
    /\ gender_i' = 1
    /\ df_gender' = <<>>
    /\ cum_duration' = 0
    /\ selected_indices' = <<>>
    /\ selected_rows' = <<>>
    /\ UNCHANGED s_ret
    /\ pc' = "selecting"
    /\ UNCHANGED <<csv_exists, columns, df, text_field, train_split, val_split,
                   target_duration, duration_order, df_train, df_val,
                   exit_status>>
    /\ UNCHANGED <<wrVars, expVars>>

\* lines 162-163: the selection replaces df_train
MainSelected ==
    /\ pc = "selecting"
    /\ spc = "returned"
    /\ df_train' = s_ret
    /\ pc' = "write_train"
    /\ UNCHANGED <<csv_exists, columns, df, text_field, train_split, val_split,
                   target_duration, duration_order, df_val, exit_status>>
    /\ UNCHANGED <<selVars, wrVars, expVars>>

\* lines 159-165: no target_duration, or a gender/duration column is missing
MainNoSelection ==
    /\ pc = "filter"
    /\ ~SelectionApplies
    /\ pc' = "write_train"
    /\ UNCHANGED <<csv_exists, columns, df, text_field, train_split, val_split,
                   target_duration, duration_order, df_train, df_val,
                   exit_status>>
    /\ UNCHANGED <<selVars, wrVars, expVars>>

\* line 168: write_list_file(df_train, ..., args.train_list, ...)
MainWriteTrain ==
    /\ pc = "write_train"
    /\ w_data' = df_train
    /\ w_out' = "train_list"
    /\ wpc' = "open"
    /\ pc' = "writing_train"
    /\ UNCHANGED <<w_k, files, reported>>
    /\ UNCHANGED <<csv_exists, columns, df, text_field, train_split, val_split,
                   target_duration, duration_order, df_train, df_val,
                   exit_status>>
    /\ UNCHANGED <<selVars, expVars>>

\* line 170: write_list_file(df_val, ..., args.val_list, ...)
MainWriteVal ==
    /\ pc = "writing_train"
    /\ wpc = "done"
    /\ w_data' = df_val
    /\ w_out' = "val_list"
    /\ wpc' = "open"
    /\ pc' = "writing_val"
    /\ UNCHANGED <<w_k, files, reported>>
    /\ UNCHANGED <<csv_exists, columns, df, text_field, train_split, val_split,
                   target_duration, duration_order, df_train, df_val,
                   exit_status>>
    /\ UNCHANGED <<selVars, expVars>>

\* line 173: main returns after the second write_list_file
MainDone ==
    /\ pc = "writing_val"
    /\ wpc = "done"
    /\ exit_status' = Given(0)
    /\ pc' = "exited"
    /\ UNCHANGED <<csv_exists, columns, df, text_field, train_split, val_split,
                   target_duration, duration_order, df_train, df_val>>
    /\ UNCHANGED <<selVars, wrVars, expVars>>

\* lines 168, 170: an exception out of write_list_file ends the process
MainUncaught ==
    /\ pc \in {"writing_train", "writing_val"}
    /\ wpc = "raised"
    /\ exit_status' = Given(1)
    /\ pc' = "exited"
    /\ UNCHANGED <<csv_exists, columns, df, text_field, train_split, val_split,
                   target_duration, duration_order, df_train, df_val>>
    /\ UNCHANGED <<selVars, wrVars, expVars>>

----------------------------------------------------------------------------
(* hfData2WavFiles.py: main *)

\* what example.get("audio") is: None, something that is no dict with "array"
\* and "sampling_rate", such a dict that sf.write saves, and such a dict on
\* which sf.write raises
AudioKinds == {"none", "malformed", "ok", "unwritable"}

\* a split that load_dataset cannot load
Unavailable == [loads |-> FALSE, examples |-> <<>>]

\* line 76: os.path.join(output_dir, f"{split}_audio_{idx:05d}.wav")
WavName(split, idx) == <<split, "audio", idx>>

\* lines 85-87: the example without its audio, plus file_path and split
Meta(example, split, idx) ==
    [text |-> example.text, file_path |-> WavName(split, idx), split |-> split]

ExpInSplitLoop == epc = "split" /\ split_i <= Len(splits)
ExpInRecordLoop == epc = "records" /\ ex_i < Len(dataset)

\* lines 63-67: load_dataset raises, the split is skipped
ExpLoadError ==
    /\ ExpInSplitLoop
    /\ ~hub[splits[split_i]].loads
    /\ split_i' = split_i + 1
    /\ UNCHANGED <<epc, splits, hub, dataset, ex_i, wav_files, all_metadata,
                   meta_csv>>
    /\ UNCHANGED <<genVars, selVars, wrVars>>

\* lines 63-64, 69: the split is loaded, enumerate its examples
ExpLoad ==
    /\ ExpInSplitLoop
    /\ hub[splits[split_i]].loads
    /\ dataset' = hub[splits[split_i]].examples
    /\ ex_i' = 0
    /\ epc' = "records"
    /\ UNCHANGED <<splits, hub, split_i, wav_files, all_metadata, meta_csv>>
    /\ UNCHANGED <<genVars, selVars, wrVars>>

\* lines 70-73: no audio, continue
ExpNoAudio ==
    /\ ExpInRecordLoop
    /\ dataset[ex_i + 1].audio = "none"
    /\ ex_i' = ex_i + 1
    /\ UNCHANGED <<epc, splits, hub, split_i, dataset, wav_files, all_metadata,
                   meta_csv>>
    /\ UNCHANGED <<genVars, selVars, wrVars>>

\* lines 75, 89-90: audio not in the expected format
ExpBadFormat ==
    /\ ExpInRecordLoop
    /\ dataset[ex_i + 1].audio = "malformed"
    /\ ex_i' = ex_i + 1
    /\ UNCHANGED <<epc, splits, hub, split_i, dataset, wav_files, all_metadata,
                   meta_csv>>
    /\ UNCHANGED <<genVars, selVars, wrVars>>

\* faulty variant of ExpSaveError, without the continue of line 82: the
\* metadata row is appended although sf.write raised
ExpSaveErrorFallsThrough ==
    /\ ExpInRecordLoop
    /\ dataset[ex_i + 1].audio = "unwritable"
    /\ all_metadata' = Append(all_metadata,
                              Meta(dataset[ex_i + 1], splits[split_i], ex_i))
    /\ ex_i' = ex_i + 1
    /\ UNCHANGED <<epc, splits, hub, split_i, dataset, wav_files, meta_csv>>
    /\ UNCHANGED <<genVars, selVars, wrVars>>

\* lines 76-82: sf.write raises, continue
ExpSaveError ==
    /\ ExpInRecordLoop
    /\ dataset[ex_i + 1].audio = "unwritable"
    /\ ex_i' = ex_i + 1
    /\ UNCHANGED <<epc, splits, hub, split_i, dataset, wav_files, all_metadata,
                   meta_csv>>
    /\ UNCHANGED <<genVars, selVars, wrVars>>

\* lines 76-88: sf.write saves the WAV file, the metadata row is appended
ExpSave ==
    /\ ExpInRecordLoop
    /\ dataset[ex_i + 1].audio = "ok"
    /\ wav_files' = Append(wav_files, WavName(splits[split_i], ex_i))
    /\ all_metadata' = Append(all_metadata,
                              Meta(dataset[ex_i + 1], splits[split_i], ex_i))
    /\ ex_i' = ex_i + 1
    /\ UNCHANGED <<epc, splits, hub, split_i, dataset, meta_csv>>
    /\ UNCHANGED <<genVars, selVars, wrVars>>

\* line 69: the examples of the split are exhausted, next split
ExpNextSplit ==
    /\ epc = "records"
    /\ ex_i = Len(dataset)
    /\ split_i' = split_i + 1
    /\ epc' = "split"
    /\ UNCHANGED <<splits, hub, dataset, ex_i, wav_files, all_metadata,
                   meta_csv>>
    /\ UNCHANGED <<genVars, selVars, wrVars>>

\* lines 92-97: the metadata CSV is written when any row was collected
ExpFinish ==
    /\ epc = "split"
    /\ split_i > Len(splits)
    /\ meta_csv' = IF all_metadata # <<>> THEN Given(all_metadata) ELSE Unset
    /\ epc' = "done"
    /\ UNCHANGED <<splits, hub, split_i, dataset, ex_i, wav_files,
                   all_metadata>>
    /\ UNCHANGED <<genVars, selVars, wrVars>>

----------------------------------------------------------------------------
(* Initial states *)

Row(i, fp, sp, g, d, t) ==
    [idx |-> i, file_path |-> fp, split |-> sp, gender |-> g, duration |-> d,
     text |-> t]

GenIdle ==
    /\ pc = "idle"
    /\ csv_exists = TRUE
    /\ columns = {}
    /\ df = <<>>
    /\ text_field = "text"
    /\ train_split = "train"
    /\ val_split = "test"
    /\ target_duration = Unset
    /\ duration_order = "random"
    /\ df_train = <<>>
    /\ df_val = <<>>
    /\ exit_status = Unset

SelLocals ==
    /\ gender_i = 1
    /\ df_gender = <<>>
    /\ cum_duration = 0
    /\ selected_indices = <<>>
    /\ selected_rows = <<>>
    /\ s_ret = <<>>

SelIdle ==
    /\ spc = "idle"
    /\ s_df = <<>>
    /\ s_target = 0
    /\ s_order = "random"
    /\ SelLocals

WrIdle ==
    /\ wpc = "idle"
    /\ w_data = <<>>
    /\ w_out = "train_list"
    /\ w_k = 0
    /\ files = [f \in OutputFiles |-> NotOpened]
    /\ reported = [f \in OutputFiles |-> Unset]

ExpIdle ==
    /\ epc = "idle"
    /\ splits = <<>>
    /\ hub = [n \in {"train", "test"} |-> [loads |-> FALSE, examples |-> <<>>]]
    /\ split_i = 1
    /\ dataset = <<>>
    /\ ex_i = 0
    /\ wav_files = <<>>
    /\ all_metadata = <<>>
    /\ meta_csv = Unset

\* the (gender, duration) cells of a row: any duration up to MaxDur for a row
\* that matches a gender; the duration of a row of another or a missing
\* gender is never read, and is MaxDur
SelCells ==
    {c \in Genders \X (0..MaxDur) :
        Lower(c[1]) \in {"male", "female"} \/ c[2] = MaxDur}

\* the tables select_balanced_by_gender is called on: up to MaxRows rows
SelTables ==
    UNION {{[i \in 1..n |-> Row(i - 1, "wav", "train", c[i][1], c[i][2], "t")] :
              c \in [1..n -> SelCells]} : n \in 0..MaxRows}

\* the literal table of the specification's example: male durations
\* 10,20,30,40,50 and female durations 5,15,25
ExampleDurations == <<10, 20, 30, 40, 50, 5, 15, 25>>
ExampleArgs == [target_duration |-> 100, order |-> "max"]
ExampleTable ==
    [i \in 1..Len(ExampleDurations) |->
        Row(i - 1, "wav", "train", IF i <= 5 THEN "male" ELSE "female",
            ExampleDurations[i], "t")]

InitSel ==
    /\ spc = "gender"
    /\ \/ /\ s_df \in SelTables
          /\ s_target \in 0..MaxTarget
          /\ s_order \in Orders
       \/ /\ s_df = ExampleTable
          /\ s_target = ExampleArgs.target_duration
          /\ s_order = ExampleArgs.order
    /\ SelLocals
    /\ GenIdle /\ WrIdle /\ ExpIdle

NextSel ==
    \/ SelNoData
    \/ SelFullData
    \/ SelReorder
    \/ SelAccumulate
    \/ SelAppend
    \/ SelReturn

SpecSel == InitSel /\ [][NextSel]_vars

----------------------------------------------------------------------------
(* Properties of select_balanced_by_gender, stated on its input s_df and   *)
(* its result s_ret                                                        *)

Rows(d) == {d[i] : i \in DOMAIN d}

\* the spellings of a gender that match it case-insensitively
Spellings(g) ==
    IF g = "male" THEN {"male", "Male", "MALE"}
    ELSE {"female", "Female", "FEMALE"}

IsGender(row, g) == row.gender \in Spellings(g)

\* the input's rows of gender g, and the returned rows of gender g
Available(g) == SelectSeq(s_df, LAMBDA row : IsGender(row, g))
SelectedFor(g) == SelectSeq(s_ret, LAMBDA row : IsGender(row, g))

Durations(d) == [i \in DOMAIN d |-> d[i].duration]

AllButLast(d) == SubSeq(d, 1, Len(d) - 1)

SelReturned == spc = "returned"

IsExample ==
    /\ s_df = ExampleTable
    /\ s_target = ExampleArgs.target_duration
    /\ s_order = ExampleArgs.order

C2_Original ==
    SelReturned =>
        /\ \A g \in {"male", "female"} :
              IF SumDuration(Available(g)) < s_target
              THEN SelectedFor(g) = Available(g)
              ELSE SumDuration(SelectedFor(g)) >= s_target
        /\ IsExample =>
              /\ Durations(SelectedFor("male")) = <<50, 40, 30>>
              /\ SelectedFor("female") = Available("female")

\* C2 amended: each gender's selected rows sum to at least target_duration/2,
\* or are all its rows when its total is below target_duration/2; on the
\* example table (target 100, order max) the male selection is the single
\* row of duration 50 and all three female rows are selected.
C2_Amended ==
    SelReturned =>
        /\ \A g \in {"male", "female"} :
              IF 2 * SumDuration(Available(g)) < s_target
              THEN SelectedFor(g) = Available(g)
              ELSE 2 * SumDuration(SelectedFor(g)) >= s_target
        /\ IsExample =>
              /\ Durations(SelectedFor("male")) = <<50>>
              /\ SelectedFor("female") = Available("female")
              /\ Len(SelectedFor("female")) = 3

C2_Witness ==
    /\ SelReturned
    /\ IsExample
    /\ Len(s_ret) = 4

\* C3: a gender that has rows and whose total duration is below
\* target_duration/2 gets exactly all the input's rows that match it
\* case-insensitively, whatever the order argument, so the selected sum is
\* the gender's total.
C3_SelectAll ==
    SelReturned =>
        \A g \in {"male", "female"} :
            (Available(g) # <<>> /\ 2 * SumDuration(Available(g)) < s_target) =>
                /\ Rows(SelectedFor(g)) = Rows(Available(g))
                /\ Len(SelectedFor(g)) = Len(Available(g))
                /\ SumDuration(SelectedFor(g)) = SumDuration(Available(g))

C3_Witness ==
    /\ SelReturned
    /\ s_order = "max"
    /\ Len(Available("female")) >= 2
    /\ \E i \in DOMAIN s_df : s_df[i].gender = "Female" /\ s_df[i].duration > 0
    /\ 2 * SumDuration(Available("female")) < s_target
    /\ SelectedFor("female") = Available("female")

Unselected(g) ==
    {u \in Rows(Available(g)) : \A r \in Rows(SelectedFor(g)) : r.idx # u.idx}

\* C4: with order 'min' every selected row of a gender is no longer than any
\* unselected row of that gender; with order 'max' no shorter.
C4_SortedPrefix ==
    SelReturned =>
        \A g \in {"male", "female"} :
            \A r \in Rows(SelectedFor(g)) : \A u \in Unselected(g) :
                /\ s_order = "min" => r.duration <= u.duration
                /\ s_order = "max" => r.duration >= u.duration

C4_Witness ==
    /\ SelReturned
    /\ s_order = "min"
    /\ \E g \in {"male", "female"} :
          \E r \in Rows(SelectedFor(g)) : \E u \in Unselected(g) :
              r.duration < u.duration

NoDuplicates(d) == \A i, j \in DOMAIN d : i # j => d[i].idx # d[j].idx

----------------------------------------------------------------------------
(* write_list_file called on its own *)

WrTables ==
    UNION {{[i \in 1..n |-> Row(i - 1, c[i][1], "train", "male", 1, c[i][2])] :
              c \in [1..n -> FilePaths \X Texts]} : n \in 0..MaxRows}

InitWrite ==
    /\ wpc = "open"
    /\ w_data \in WrTables
    /\ w_out \in OutputFiles
    /\ w_k = 0
    /\ files = [f \in OutputFiles |-> NotOpened]
    /\ reported = [f \in OutputFiles |-> Unset]
    /\ GenIdle /\ SelIdle /\ ExpIdle

NextWrite ==
    \/ WOpen
    \/ WSkip
    \/ WLine
    \/ WRaise
    \/ WReport

SpecWrite == InitWrite /\ [][NextWrite]_vars

\* the rows of data whose identifier is neither empty nor missing
WithIdentifier(d) ==
    SelectSeq(d, LAMBDA row : row.file_path \notin {"", None, NaN})

WEnded == wpc \in {"done", "raised"}

\* C6: the N of "Wrote N entries" is the number of lines written to the
\* output file, also when rows were skipped for an empty identifier.
C6_ReportsLinesWritten ==
    wpc = "done" => reported[w_out] = Given(Len(files[w_out].lines))

\* C7: a row whose file_path is empty or missing is skipped without an
\* error, and every other row gives exactly one line, in table order.
C7_SkipsEmptyIdentifier ==
    WEnded =>
        /\ wpc # "raised"
        /\ Len(files[w_out].lines) = Len(WithIdentifier(w_data))
        /\ \A i \in DOMAIN files[w_out].lines :
              files[w_out].lines[i].rel_path[2] =
                  WithIdentifier(w_data)[i].file_path

----------------------------------------------------------------------------
(* A run of generate_TTS2_lists.py *)

MaxCsvRows == 2

AllColumns == {"file_path", "split", "text", "gender", "duration"}

TextFields == {"text", "phonemes"}

\* the cells of a column of the CSV; a column the CSV lacks has no cells.
\* read_csv gives a missing file_path cell as NaN, never as an empty string
CellsOf(col, cols) ==
    IF col \notin cols THEN {Absent}
    ELSE CASE col = "file_path" -> {"wav_data/a.wav", NaN}
           [] col = "split" -> {"train", "test"}
           [] col = "text" -> {"t"}
           [] col = "gender" -> {"male", "other"}
           [] col = "duration" -> {1}

CsvRows(cols) ==
    CellsOf("file_path", cols) \X CellsOf("split", cols) \X
    CellsOf("gender", cols) \X CellsOf("duration", cols) \X CellsOf("text", cols)

CsvTables(cols) ==
    UNION {{[i \in 1..n |->
                Row(i - 1, c[i][1], c[i][2], c[i][3], c[i][4], c[i][5])] :
              c \in [1..n -> CsvRows(cols)]} : n \in 0..MaxCsvRows}

InitGen ==
    /\ pc = "start"
    /\ \/ /\ csv_exists = FALSE
          /\ columns = {}
          /\ df = <<>>
       \/ /\ csv_exists = TRUE
          /\ columns \in SUBSET AllColumns
          /\ df \in CsvTables(columns)
    /\ text_field \in TextFields
    /\ train_split = "train"
    /\ val_split \in {"test", "train"}
    /\ target_duration \in {Unset} \cup {Given(n) : n \in 1..MaxTarget}
    /\ duration_order \in Orders
    /\ df_train = <<>>
    /\ df_val = <<>>
    /\ exit_status = Unset
    /\ SelIdle /\ WrIdle /\ ExpIdle

\* read_csv never gives an empty file_path cell: main never takes WSkip
NextGen ==
    \/ MainNoCsv
    \/ MainMissingColumn
    \/ MainSplit
    \/ MainSelect
    \/ MainSelected
    \/ MainNoSelection
    \/ MainWriteTrain
    \/ MainWriteVal
    \/ MainDone
    \/ MainUncaught
    \/ SelNoData
    \/ SelFullData
    \/ SelReorder
    \/ SelAccumulate
    \/ SelAppend
    \/ SelReturn
    \/ WOpen
    \/ WLine
    \/ WRaise
    \/ WReport

SpecGen == InitGen /\ [][NextGen]_vars

\* the run fails at startup: no metadata CSV, or a required column missing
StartupFailure ==
    \/ ~csv_exists
    \/ "file_path" \notin columns
    \/ "split" \notin columns
    \/ text_field \notin columns

\* C8: when the metadata CSV does not exist or file_path, split or the text
\* field's column is absent, the run ends with a non-zero exit status and at
\* no point of it is the training or the validation list opened for writing.
C8_FatalBeforeOutput ==
    StartupFailure =>
        /\ pc \in {"start", "exited"}
        /\ \A f \in OutputFiles : ~files[f].opened
        /\ wpc = "idle"
        /\ pc = "exited" => (exit_status # Unset /\ ValueOf(exit_status) # 0)

C8_Witness ==
    /\ pc = "exited"
    /\ csv_exists
    /\ {"file_path", "split"} \subseteq columns
    /\ text_field = "text"
    /\ "text" \notin columns
    /\ df # <<>>
    /\ exit_status = Given(1)

TrainRows == SelectSeq(df, LAMBDA row : row.split = train_split)
ValRows == SelectSeq(df, LAMBDA row : row.split = val_split)

SelectionWanted ==
    /\ target_duration # Unset
    /\ "gender" \in columns
    /\ "duration" \in columns

\* C9: the Selector is called only when target_duration is given and the
\* gender and duration columns are present, and then on the training subset;
\* the writer gets the Selector's result in that case and the whole training
\* subset otherwise; the validation table the writer gets is in every run
\* all rows whose split is val_split.
C9_TrainOnlySelection ==
    /\ spc # "idle" => (SelectionWanted /\ s_df = TrainRows)
    /\ pc = "writing_train" =>
          /\ w_out = "train_list"
          /\ SelectionWanted => (spc = "returned" /\ w_data = s_ret)
          /\ ~SelectionWanted => (spc = "idle" /\ w_data = TrainRows)
    /\ pc = "writing_val" => (w_out = "val_list" /\ w_data = ValRows)
    /\ files["val_list"].opened => pc \in {"writing_val", "exited"}
    /\ (pc = "exited" /\ exit_status = Given(0)) =>
          /\ files["train_list"].opened
          /\ files["val_list"].opened
          /\ w_data = ValRows

C9_Witness ==
    /\ pc = "exited"
    /\ exit_status = Given(0)
    /\ SelectionWanted
    /\ Len(df_train) < Len(TrainRows)
    /\ Len(files["val_list"].lines) = Len(ValRows)
    /\ ValRows # <<>>

----------------------------------------------------------------------------
(* A run of hfData2WavFiles.py *)

MaxSplits == 2
MaxExamples == 2

SplitNames == {"train", "test"}

Examples ==
    UNION {[1..n -> [audio : AudioKinds, text : {"t"}]] : n \in 0..MaxExamples}

InitExp ==
    /\ epc = "split"
    /\ splits \in UNION {[1..n -> SplitNames] : n \in 0..MaxSplits}
    /\ hub \in [SplitNames -> {Unavailable} \cup
                               {[loads |-> TRUE, examples |-> e] : e \in Examples}]
    /\ split_i = 1
    /\ dataset = <<>>
    /\ ex_i = 0
    /\ wav_files = <<>>
    /\ all_metadata = <<>>
    /\ meta_csv = Unset
    /\ GenIdle /\ SelIdle /\ WrIdle

NextExp ==
    \/ ExpLoadError
    \/ ExpLoad
    \/ ExpNoAudio
    \/ ExpBadFormat
    \/ ExpSaveError
    \/ ExpSave
    \/ ExpNextSplit
    \/ ExpFinish

SpecExp == InitExp /\ [][NextExp]_vars

\* the rows an example of a split must leave in the metadata: one when its
\* WAV file is written, none otherwise
RECURSIVE RowsOfExamples(_, _, _)
RowsOfExamples(examples, split, idx) ==
    IF examples = <<>> THEN <<>>
    ELSE (IF examples[1].audio = "ok"
          THEN <<[text |-> examples[1].text,
                  file_path |-> <<split, "audio", idx>>,
                  split |-> split]>>
          ELSE <<>>)
         \o RowsOfExamples(Tail(examples), split, idx + 1)

\* the rows the requested splits must leave: none for a split that fails to
\* load, and every later split still counts
RECURSIVE RowsOfSplits(_)
RowsOfSplits(names) ==
    IF names = <<>> THEN <<>>
    ELSE (IF hub[names[1]].loads
          THEN RowsOfExamples(hub[names[1]].examples, names[1], 0)
          ELSE <<>>)
         \o RowsOfSplits(Tail(names))

\* C10: a split that fails to load and a record without audio, with
\* malformed audio or with a failed WAV write are skipped and everything
\* after them is still processed; at the end the metadata holds exactly one
\* row, with the file's path and the split name, for each record whose WAV
\* file was written, and none for a skipped record.
C10_SkipAndContinue ==
    /\ epc = "done" =>
          /\ all_metadata = RowsOfSplits(splits)
          /\ Len(wav_files) = Len(all_metadata)
          /\ \A i \in DOMAIN all_metadata :
                all_metadata[i].file_path = wav_files[i]
    /\ Len(all_metadata) = Len(wav_files)

C10_Witness ==
    /\ epc = "done"
    /\ Len(splits) = 2
    /\ ~hub[splits[1]].loads
    /\ hub[splits[2]].loads
    /\ Len(hub[splits[2]].examples) = 2
    /\ hub[splits[2]].examples[1].audio \in {"none", "malformed", "unwritable"}
    /\ hub[splits[2]].examples[2].audio = "ok"
    /\ Len(all_metadata) = 1
    /\ all_metadata[1].split = splits[2]
    /\ meta_csv = Given(all_metadata)

====
